---- MODULE Spec2Model ----
\* A model of nb_explainify: the notebook transformation pipeline of
\* src/nb_explainify/notebook_processor.py, the response post-processing and
\* the prompt templates of src/nb_explainify/llm_processor.py, and the caller
\* of both in src/app.py.
\*
\* Text is a sequence of one-character strings, so that strip, find, startswith
\* and slicing are computed the way Python computes them.
EXTENDS Integers, Sequences, FiniteSets, TLC

VARIABLES
    loaded,     \* self.notebook is not None
    cells,      \* self.notebook.cells: sequence of [kind, source, origin]
    cells0,     \* the cells as loaded (history)
    pre,        \* the cells at entry of the most recent pass (history)
    flags,      \* the six to_* arguments of explainify_notebook
    hasKey,     \* OPENAI_API_KEY is set in the environment
    custom_prompts, \* the prompts the caller gives LLMProcessor(prompts=...)
    kwargs,     \* the keyword arguments the caller gives NotebookProcessor
    pc,         \* position inside explainify_notebook
    outcome,    \* "running", "returned" or "raised"
    saved,      \* "none", "written" or "failed": what save_notebook did
    passes,     \* the passes invoked so far, in order (history)
    calls,      \* the external calls made so far, in order (history)
    fpc,        \* position of the stand-alone LLMProcessor call
    code,       \* argument of the stand-alone LLMProcessor call
    response,   \* what the generation service answers to it
    result      \* what the stand-alone call returned or raised

vars == <<loaded, cells, cells0, pre, flags, hasKey, custom_prompts, kwargs, pc,
          outcome, saved, passes, calls, fpc, code, response, result>>

pipelineVars == <<loaded, cells, cells0, pre, flags, hasKey, custom_prompts,
                  kwargs, pc, outcome, saved, passes, calls>>

llmVars == <<fpc, code, response, result>>

----------------------------------------------------------------------------
\* Bounds of the model.

\* Longest notebook a single pass is called on.
MaxCells == 4

\* Longest notebook explainify_notebook is run on.
MaxRunCells == 2

\* Most pieces concatenated into the code handed to optimize_code.
MaxCodePieces == 1

\* Most pieces concatenated into the body of a generation response.
MaxBodyPieces == 2

\* Longest notebook a caller with prompts of its own has processed.
MaxAppCells == 1

----------------------------------------------------------------------------
\* Python str operations on sequences of characters.

\* The characters str.strip() removes, those for which str.isspace() holds.
\* A character that cannot be written in a string is given by its name:
\* "CR" is \r, "VT" \x0b, "FF" \x0c, "FS" to "US" \x1c to \x1f, "NEL" \x85,
\* "NBSP" \xa0, and "U+..." the Unicode space of that code point.
AsciiWhitespace == {" ", "\n", "\t", "CR", "VT", "FF", "FS", "GS", "RS", "US"}

UnicodeWhitespace ==
    {"NEL", "NBSP", "U+1680", "U+2000", "U+2001", "U+2002", "U+2003", "U+2004",
     "U+2005", "U+2006", "U+2007", "U+2008", "U+2009", "U+200A", "U+2028",
     "U+2029", "U+202F", "U+205F", "U+3000"}

Whitespace == AsciiWhitespace \cup UnicodeWhitespace

RECURSIVE LStrip(_)
LStrip(s) ==
    IF s # <<>> /\ Head(s) \in Whitespace THEN LStrip(Tail(s)) ELSE s

RECURSIVE RStrip(_)
RStrip(s) ==
    IF s # <<>> /\ s[Len(s)] \in Whitespace
    THEN RStrip(SubSeq(s, 1, Len(s) - 1))
    ELSE s

\* str.strip()
Strip(s) == RStrip(LStrip(s))

\* str.startswith(p)
StartsWith(s, p) == Len(p) <= Len(s) /\ SubSeq(s, 1, Len(p)) = p

\* str.endswith(p)
EndsWith(s, p) ==
    Len(p) <= Len(s) /\ SubSeq(s, Len(s) - Len(p) + 1, Len(s)) = p

\* p occurs in s at the 0-based index i
OccursAt(s, p, i) ==
    i >= 0 /\ i + Len(p) <= Len(s) /\ SubSeq(s, i + 1, i + Len(p)) = p

\* str.find(p): the lowest 0-based index of p in s, or -1
RECURSIVE FindFrom(_, _, _)
FindFrom(s, p, i) ==
    IF i + Len(p) > Len(s) THEN -1
    ELSE IF OccursAt(s, p, i) THEN i
    ELSE FindFrom(s, p, i + 1)

Find(s, p) == FindFrom(s, p, 0)

\* p in s
Contains(s, p) == Find(s, p) # -1

\* s[i:] for 0 <= i <= len(s)
SliceFrom(s, i) == SubSeq(s, i + 1, Len(s))

\* s[:-n] for 0 < n <= len(s)
DropLast(s, n) == SubSeq(s, 1, Len(s) - n)

----------------------------------------------------------------------------
\* Literals of llm_processor.py.

\* The backquote character (the module's lexer has no literal for it).
Backquote == "BACKQUOTE"

Fence == <<Backquote, Backquote, Backquote>>
FencePython == Fence \o <<"p", "y", "t", "h", "o", "n">>

MarkerDef == <<"d", "e", "f", " ">>
MarkerClass == <<"c", "l", "a", "s", "s", " ">>
MarkerImport == <<"i", "m", "p", "o", "r", "t", " ">>
MarkerFrom == <<"f", "r", "o", "m", " ">>
MarkerHash == <<"#">>

\* code_markers, in declaration order
code_markers == <<MarkerDef, MarkerClass, MarkerImport, MarkerFrom, MarkerHash>>

\* LLMProcessor._clean_response
AfterStrip(r) == Strip(r)

AfterFencePython(r) ==
    IF StartsWith(r, FencePython) THEN Strip(SliceFrom(r, Len(FencePython))) ELSE r

AfterFenceStart(r) ==
    IF StartsWith(r, Fence) THEN Strip(SliceFrom(r, 3)) ELSE r

AfterFenceEnd(r) ==
    IF EndsWith(r, Fence) THEN Strip(DropLast(r, 3)) ELSE r

clean_response(r) ==
    AfterFenceEnd(AfterFenceStart(AfterFencePython(AfterStrip(r))))

\* A guard that looks for every entry of code_markers.
NeedsTruncationAnyMarker(c) ==
    \E k \in 1..Len(code_markers) : Contains(c, code_markers[k])

\* The guard of the truncation in optimize_code, on the stripped code.
NeedsTruncation(c) ==
    Contains(c, MarkerDef) \/ Contains(c, MarkerClass) \/ Contains(c, MarkerImport)

\* A loop that keeps the place of the first marker of code_markers found in
\* the response, wherever the other markers are.
RECURSIVE StartIndexFirstListed(_, _, _)
StartIndexFirstListed(o, k, start) ==
    IF k > Len(code_markers) THEN start
    ELSE LET pos == Find(o, code_markers[k])
         IN  IF pos # -1 THEN pos ELSE StartIndexFirstListed(o, k + 1, start)

\* The loop over code_markers: start_index after markers k..5 were looked at.
RECURSIVE StartIndexFrom(_, _, _)
StartIndexFrom(o, k, start) ==
    IF k > Len(code_markers) THEN start
    ELSE LET pos == Find(o, code_markers[k])
         IN  StartIndexFrom(o, k + 1,
                            IF pos # -1 /\ pos < start THEN pos ELSE start)

start_index(o) == StartIndexFrom(o, 1, Len(o))

\* optimized_code[start_index:].strip()
Truncate(o) == Strip(SliceFrom(o, start_index(o)))

\* A generation outcome: the service raises, or answers raw.
Raised == [ok |-> FALSE, raw |-> <<>>]
Answer(r) == [ok |-> TRUE, raw |-> r]

\* LLMProcessor.optimize_code(code) with the service's outcome g:
\* [raised, value, called].
optimize_code(c, g) ==
    LET stripped == Strip(c)
    IN  IF stripped = <<>>
        THEN [raised |-> FALSE, value |-> stripped, called |-> FALSE]
        ELSE IF ~g.ok
        THEN [raised |-> TRUE, value |-> <<>>, called |-> TRUE]
        ELSE LET cleaned == clean_response(g.raw)
             IN  [raised |-> FALSE,
                  value  |-> IF NeedsTruncation(stripped)
                             THEN Truncate(cleaned) ELSE cleaned,
                  called |-> TRUE]

\* LLMProcessor.add_comments_to_code(code, context) with the service's outcome.
add_comments_to_code(c, g) ==
    IF Strip(c) = <<>>
    THEN [raised |-> FALSE, value |-> c, called |-> FALSE]
    ELSE IF ~g.ok
    THEN [raised |-> TRUE, value |-> <<>>, called |-> TRUE]
    ELSE [raised |-> FALSE, value |-> clean_response(g.raw), called |-> TRUE]

----------------------------------------------------------------------------
\* The external collaborators. The generation service and black are not part
\* of the repository: each call either raises or returns, as the environment
\* chooses, and what it returns is a text that depends on what it was given.

\* What the service answers to the comment prompt for code src: a fenced copy
\* of the code under a comment line.
CommentRaw(src) ==
    FencePython \o <<"\n", "#", "\n">> \o src \o <<"\n">> \o Fence

\* What the service answers to the optimization prompt: prose, then code.
OptimizeRaw(src) == <<"H", "i", "\n">> \o src

\* What the service answers to the explanation prompt.
ExplainRaw(src) == <<"\n", "m", ":">> \o Strip(src) \o <<"\n">>

\* What the service answers to the introduction and summary prompts.
IntroRaw == <<" ", "I", "\n">>
SummaryRaw == <<"\n", "S", " ">>

\* black.format_str is a function of the source: it raises on a source it
\* cannot parse (here: one with an unclosed parenthesis) and returns the
\* reformatted source otherwise.
black_raises(src) == Contains(src, <<"(">>)

black_format_str(src) ==
    IF Strip(src) = <<>> THEN <<>> ELSE Strip(src) \o <<"\n">>

----------------------------------------------------------------------------
\* Cells and the history of external calls.

Cell(kind, source, origin) ==
    [kind |-> kind, source |-> source, origin |-> origin]

\* nbformat.v4.new_markdown_cell(text), made by the named pass
new_markdown_cell(text, by) == Cell("markdown", text, by)

\* One external call: the operation, the position of the cell it was made for,
\* the code and context handed over (context None is given = FALSE), the
\* (cell_type, source) listing handed over, how it ended, and the prompt
\* template the prompt was made from (none for black).
Call(op, pos, src, given, ctx, listing, ok, ret, template) ==
    [op |-> op, pos |-> pos, code |-> src, ctxGiven |-> given, context |-> ctx,
     listing |-> listing, ok |-> ok, ret |-> ret, template |-> template]

\* What a pass hands back: the cells, the calls it made, and whether it raised.
Done(cs, log) == [cells |-> cs, calls |-> log, raised |-> FALSE]
Threw(cs, log) == [cells |-> cs, calls |-> log, raised |-> TRUE]

\* Positions of the code cells: get_code_cells
get_code_cells(cs) == {i \in 1..Len(cs) : cs[i].kind = "code"}

\* LLMProcessor() raises ValueError when OPENAI_API_KEY is not set.
LLMProcessorRaises(key) == ~key

\* The keys of self.prompts.
PromptKeys ==
    {"notebook_summary", "notebook_intro", "code_optimization", "code_comments",
     "markdown_explanation", "enhance_markdown"}

\* The template DefaultPrompts holds for a key, and a template of the caller's.
DefaultPrompts(k) == <<"DefaultPrompts", k>>
CustomPrompt(k) == <<"custom", k>>

\* prompts=None
NoPrompts == [k \in {} |-> <<>>]

\* LLMProcessor.__init__: self.prompts is the defaults, updated with prompts.
LLMProcessorPrompts(prompts) ==
    [k \in PromptKeys \cup DOMAIN prompts |->
        IF k \in DOMAIN prompts THEN prompts[k] ELSE DefaultPrompts(k)]

\* llm = LLMProcessor() at the top of every generation pass: llm.prompts
PassPrompts == LLMProcessorPrompts(NoPrompts)

\* [(cell.cell_type, cell.source) for cell in self.notebook.cells]
notebook_cells(cs) == [i \in 1..Len(cs) |-> <<cs[i].kind, cs[i].source>>]

----------------------------------------------------------------------------
\* The passes of NotebookProcessor. Each takes the cells and the environment's
\* choice F of the cell positions at which the generation call raises.

\* The service's outcome for a call the environment lets fail or answer.
Outcome(fails, raw) == IF fails THEN Raised ELSE Answer(raw)

\* A loop body without the try/except: what black raises leaves the pass.
FormatCellNoTry(src, fails) ==
    [raised |-> fails, source |-> IF fails THEN src ELSE black_format_str(src)]

\* A loop body that assigns before black has answered.
FormatCellClobber(src, fails) ==
    [raised |-> FALSE, source |-> IF fails THEN <<>> ELSE black_format_str(src)]

\* format_code_cells: the body of the loop, try/except included.
FormatCell(src, fails) ==
    IF fails
    THEN [raised |-> FALSE, source |-> src]
    ELSE [raised |-> FALSE, source |-> black_format_str(src)]

RECURSIVE FormatWalk(_, _, _)
FormatWalk(cs, i, log) ==
    IF i > Len(cs) THEN Done(cs, log)
    ELSE IF cs[i].kind # "code" THEN FormatWalk(cs, i + 1, log)
    ELSE LET src == cs[i].source
             fails == black_raises(src)
             r == FormatCell(src, fails)
             c == Call("format", i, src, FALSE, <<>>, <<>>, ~fails,
                       IF fails THEN <<>> ELSE black_format_str(src), <<>>)
         IN  IF r.raised THEN Threw(cs, Append(log, c))
             ELSE FormatWalk([cs EXCEPT ![i].source = r.source], i + 1,
                             Append(log, c))

\* A pass that stores get_code_cells() back as the cells of the notebook.
format_code_cells_only(cs) ==
    LET r == FormatWalk(cs, 1, <<>>)
    IN  [r EXCEPT !.cells = SelectSeq(r.cells, LAMBDA c : c.kind = "code")]

format_code_cells(cs) == FormatWalk(cs, 1, <<>>)

\* A loop body that loses the source of a cell whose call raises.
CommentCellClobber(src, fails) ==
    LET r == add_comments_to_code(src, Outcome(fails, CommentRaw(src)))
    IN  [source |-> r.value, called |-> r.called, ok |-> ~r.raised]

\* add_comments_to_code_cells: the body of the loop for a code cell. The call
\* is llm.add_comments_to_code(cell.source): no context is handed over.
CommentCell(src, fails) ==
    LET r == add_comments_to_code(src, Outcome(fails, CommentRaw(src)))
    IN  [source |-> IF r.raised THEN src ELSE r.value,
         called |-> r.called,
         ok     |-> ~r.raised]

RECURSIVE CommentWalk(_, _, _, _)
CommentWalk(cs, i, F, log) ==
    IF i > Len(cs) THEN Done(cs, log)
    ELSE IF cs[i].kind # "code" THEN CommentWalk(cs, i + 1, F, log)
    ELSE LET src == cs[i].source
             r == CommentCell(src, i \in F)
             c == Call("comment", i, src, FALSE, <<>>, <<>>, r.ok,
                       IF r.ok THEN CommentRaw(src) ELSE <<>>,
                       PassPrompts["code_comments"])
         IN  CommentWalk([cs EXCEPT ![i].source = r.source], i + 1, F,
                         IF r.called THEN Append(log, c) ELSE log)

\* An add_comments_to_code_cells that makes the call of a cell a second time
\* when it raised.
add_comments_retrying(cs, key, F) ==
    IF LLMProcessorRaises(key) THEN Threw(cs, <<>>)
    ELSE LET r == CommentWalk(cs, 1, F, <<>>)
         IN  [r EXCEPT !.calls = r.calls \o SelectSeq(r.calls, LAMBDA c : ~c.ok)]

add_comments_to_code_cells(cs, key, F) ==
    IF LLMProcessorRaises(key) THEN Threw(cs, <<>>)
    ELSE CommentWalk(cs, 1, F, <<>>)

\* Parameters optimize_code declares after self, and the positional arguments
\* optimize_code_cells calls it with.
OptimizeCodeParams == 1
OptimizeCallArgs == 2

\* llm.optimize_code(cell.source, context): Python raises TypeError on a call
\* with more positional arguments than the method declares.
CallOptimize(src, ctx, g) ==
    IF OptimizeCallArgs # OptimizeCodeParams
    THEN [raised |-> TRUE, value |-> <<>>, called |-> FALSE]
    ELSE optimize_code(src, g)

\* optimize_code_cells: the body of the loop for a code cell.
OptimizeCell(src, ctx, fails) ==
    LET r == CallOptimize(src, ctx, Outcome(fails, OptimizeRaw(src)))
    IN  [source  |-> IF r.raised THEN src ELSE r.value,
         context |-> IF r.raised THEN ctx ELSE Append(ctx, r.value),
         called  |-> r.called,
         ok      |-> ~r.raised]

RECURSIVE OptimizeWalk(_, _, _, _, _)
OptimizeWalk(cs, i, F, ctx, log) ==
    IF i > Len(cs) THEN Done(cs, log)
    ELSE IF cs[i].kind # "code" THEN OptimizeWalk(cs, i + 1, F, ctx, log)
    ELSE LET src == cs[i].source
             r == OptimizeCell(src, ctx, i \in F)
             c == Call("optimize", i, src, TRUE, ctx, <<>>, r.ok,
                       IF r.ok THEN OptimizeRaw(src) ELSE <<>>,
                       PassPrompts["code_optimization"])
         IN  OptimizeWalk([cs EXCEPT ![i].source = r.source], i + 1, F,
                          r.context, IF r.called THEN Append(log, c) ELSE log)

optimize_code_cells(cs, key, F) ==
    IF LLMProcessorRaises(key) THEN Threw(cs, <<>>)
    ELSE OptimizeWalk(cs, 1, F, <<>>, <<>>)

\* LLMProcessor.generate_markdown_explanation: response.strip()
generate_markdown_explanation(g) ==
    IF g.ok THEN [raised |-> FALSE, value |-> Strip(g.raw)]
    ELSE [raised |-> TRUE, value |-> <<>>]

\* A loop body that appends the explanation after its code cell.
MarkdownCellAfter(cell, fails) ==
    IF cell.kind # "code" THEN <<cell>>
    ELSE LET r == generate_markdown_explanation(
                      Outcome(fails, ExplainRaw(cell.source)))
         IN  IF r.raised THEN <<cell>>
             ELSE <<cell, new_markdown_cell(r.value, "markdown")>>

\* A loop body that puts the explanation in the place of its code cell.
MarkdownCellSwallow(cell, fails) ==
    IF cell.kind # "code" THEN <<cell>>
    ELSE LET r == generate_markdown_explanation(
                      Outcome(fails, ExplainRaw(cell.source)))
         IN  IF r.raised THEN <<cell>>
             ELSE <<new_markdown_cell(r.value, "markdown")>>

\* add_markdown_explanations: what the loop appends to new_cells for a cell.
MarkdownCell(cell, fails) ==
    IF cell.kind # "code" THEN <<cell>>
    ELSE LET r == generate_markdown_explanation(
                      Outcome(fails, ExplainRaw(cell.source)))
         IN  IF r.raised THEN <<cell>>
             ELSE <<new_markdown_cell(r.value, "markdown"), cell>>

\* A walk that takes a cell into the context only when its call succeeded.
RECURSIVE MarkdownWalkForgetting(_, _, _, _, _, _)
MarkdownWalkForgetting(cs, i, F, new_cells, ctx, log) ==
    IF i > Len(cs) THEN Done(new_cells, log)
    ELSE IF cs[i].kind # "code"
    THEN MarkdownWalkForgetting(cs, i + 1, F,
                                new_cells \o MarkdownCell(cs[i], FALSE), ctx, log)
    ELSE LET src == cs[i].source
             c == Call("markdown", i, src, TRUE, ctx, <<>>, i \notin F,
                       IF i \in F THEN <<>> ELSE ExplainRaw(src),
                       PassPrompts["markdown_explanation"])
         IN  MarkdownWalkForgetting(cs, i + 1, F,
                                    new_cells \o MarkdownCell(cs[i], i \in F),
                                    IF i \in F THEN ctx ELSE Append(ctx, src),
                                    Append(log, c))

RECURSIVE MarkdownWalk(_, _, _, _, _, _)
MarkdownWalk(cs, i, F, new_cells, ctx, log) ==
    IF i > Len(cs) THEN Done(new_cells, log)
    ELSE IF cs[i].kind # "code"
    THEN MarkdownWalk(cs, i + 1, F, new_cells \o MarkdownCell(cs[i], FALSE),
                      ctx, log)
    ELSE LET src == cs[i].source
             c == Call("markdown", i, src, TRUE, ctx, <<>>, i \notin F,
                       IF i \in F THEN <<>> ELSE ExplainRaw(src),
                       PassPrompts["markdown_explanation"])
         IN  MarkdownWalk(cs, i + 1, F,
                          new_cells \o MarkdownCell(cs[i], i \in F),
                          Append(ctx, src), Append(log, c))

\* list.insert before the cell at place p (places from 1)
InsertAt(cs, p, c) == SubSeq(cs, 1, p - 1) \o <<c>> \o SubSeq(cs, p, Len(cs))

\* The cell the markdown pass makes of a response to the explanation prompt.
ExplanationOf(src) ==
    new_markdown_cell(
        generate_markdown_explanation(Answer(ExplainRaw(src))).value, "markdown")

\* A walk that inserts each explanation into the list it walks, at the place
\* the code cell had when the walk began.
RECURSIVE UnadjustedWalk(_, _, _, _)
UnadjustedWalk(snapshot, i, F, cur) ==
    IF i > Len(snapshot) THEN cur
    ELSE IF snapshot[i].kind = "code" /\ i \notin F
    THEN UnadjustedWalk(snapshot, i + 1, F,
                        InsertAt(cur, i, ExplanationOf(snapshot[i].source)))
    ELSE UnadjustedWalk(snapshot, i + 1, F, cur)

\* An add_markdown_explanations that makes the same calls and inserts in place
\* without adjusting the places.
add_markdown_explanations_unadjusted(cs, key, F) ==
    IF LLMProcessorRaises(key) THEN Threw(cs, <<>>)
    ELSE [MarkdownWalk(cs, 1, F, <<>>, <<>>, <<>>) EXCEPT
              !.cells = UnadjustedWalk(cs, 1, F, cs)]

add_markdown_explanations(cs, key, F) ==
    IF LLMProcessorRaises(key) THEN Threw(cs, <<>>)
    ELSE MarkdownWalk(cs, 1, F, <<>>, <<>>, <<>>)

\* generate_notebook_intro / generate_notebook_summary: response.strip()
generate_notebook_text(g) ==
    IF g.ok THEN [raised |-> FALSE, value |-> Strip(g.raw)]
    ELSE [raised |-> TRUE, value |-> <<>>]

\* An add_intro that appends the new cell instead of inserting it in front.
add_intro_appending(cs, key, fails) ==
    IF LLMProcessorRaises(key) THEN Threw(cs, <<>>)
    ELSE LET r == generate_notebook_text(Outcome(fails, IntroRaw))
             c == Call("intro", 0, <<>>, FALSE, <<>>, notebook_cells(cs),
                       ~fails, IF fails THEN <<>> ELSE IntroRaw,
                       PassPrompts["notebook_intro"])
         IN  IF r.raised THEN Done(cs, <<c>>)
             ELSE Done(Append(cs, new_markdown_cell(r.value, "intro")), <<c>>)

\* add_intro: fails = the generation call raises.
add_intro(cs, key, fails) ==
    IF LLMProcessorRaises(key) THEN Threw(cs, <<>>)
    ELSE LET r == generate_notebook_text(Outcome(fails, IntroRaw))
             c == Call("intro", 0, <<>>, FALSE, <<>>, notebook_cells(cs),
                       ~fails, IF fails THEN <<>> ELSE IntroRaw,
                       PassPrompts["notebook_intro"])
         IN  IF r.raised THEN Done(cs, <<c>>)
             ELSE Done(<<new_markdown_cell(r.value, "intro")>> \o cs, <<c>>)

\* add_summary
add_summary(cs, key, fails) ==
    IF LLMProcessorRaises(key) THEN Threw(cs, <<>>)
    ELSE LET r == generate_notebook_text(Outcome(fails, SummaryRaw))
             c == Call("summary", 0, <<>>, FALSE, <<>>, notebook_cells(cs),
                       ~fails, IF fails THEN <<>> ELSE SummaryRaw,
                       PassPrompts["notebook_summary"])
         IN  IF r.raised THEN Done(cs, <<c>>)
             ELSE Done(Append(cs, new_markdown_cell(r.value, "summary")), <<c>>)

----------------------------------------------------------------------------
\* explainify_notebook and save_notebook.

FlagNames ==
    {"to_intro", "to_format", "to_markdown", "to_optimize", "to_comment",
     "to_summary"}

\* The statements of explainify_notebook, in the order they are written.
Statements ==
    <<"start", "intro", "format", "markdown", "optimize", "comment", "summary",
      "save", "done">>

\* The statement after p.
After(p) ==
    Statements[(CHOOSE i \in 1..Len(Statements) : Statements[i] = p) + 1]

\* save_notebook: writes = open and nbformat.write succeed.
save_notebook(writes) == [raised |-> ~writes, written |-> writes]

\* A pass called inside try/except Exception: what it raises is printed.
InTry(name, r) ==
    /\ cells' = r.cells
    /\ calls' = calls \o r.calls
    /\ pre' = cells
    /\ passes' = Append(passes, name)
    /\ pc' = After(name)
    /\ UNCHANGED outcome

\* A pass called outside any try: what it raises leaves explainify_notebook.
NoTry(name, r) ==
    /\ cells' = r.cells
    /\ calls' = calls \o r.calls
    /\ pre' = cells
    /\ passes' = Append(passes, name)
    /\ pc' = IF r.raised THEN "done" ELSE After(name)
    /\ outcome' = IF r.raised THEN "raised" ELSE outcome

\* A pass whose flag is off.
Skip(name) ==
    /\ pc' = After(name)
    /\ UNCHANGED <<cells, calls, pre, passes, outcome>>

\* if self.notebook is None: raise ValueError
Start ==
    /\ pc = "start"
    /\ pc' = IF loaded THEN After("start") ELSE "done"
    /\ outcome' = IF loaded THEN outcome ELSE "raised"
    /\ UNCHANGED <<loaded, cells, cells0, pre, flags, hasKey, custom_prompts,
                   kwargs, saved, passes, calls, llmVars>>

Intro ==
    /\ pc = "intro"
    /\ IF flags.to_intro
       THEN \E fails \in BOOLEAN : InTry("intro", add_intro(cells, hasKey, fails))
       ELSE Skip("intro")
    /\ UNCHANGED <<loaded, cells0, flags, hasKey, custom_prompts, kwargs, saved,
                   llmVars>>

Format ==
    /\ pc = "format"
    /\ IF flags.to_format
       THEN NoTry("format", format_code_cells(cells))
       ELSE Skip("format")
    /\ UNCHANGED <<loaded, cells0, flags, hasKey, custom_prompts, kwargs, saved,
                   llmVars>>

Markdown ==
    /\ pc = "markdown"
    /\ IF flags.to_markdown
       THEN \E F \in SUBSET get_code_cells(cells) :
                InTry("markdown", add_markdown_explanations(cells, hasKey, F))
       ELSE Skip("markdown")
    /\ UNCHANGED <<loaded, cells0, flags, hasKey, custom_prompts, kwargs, saved,
                   llmVars>>

Optimize ==
    /\ pc = "optimize"
    /\ IF flags.to_optimize
       THEN \E F \in SUBSET get_code_cells(cells) :
                InTry("optimize", optimize_code_cells(cells, hasKey, F))
       ELSE Skip("optimize")
    /\ UNCHANGED <<loaded, cells0, flags, hasKey, custom_prompts, kwargs, saved,
                   llmVars>>

Comment ==
    /\ pc = "comment"
    /\ IF flags.to_comment
       THEN \E F \in SUBSET get_code_cells(cells) :
                InTry("comment", add_comments_to_code_cells(cells, hasKey, F))
       ELSE Skip("comment")
    /\ UNCHANGED <<loaded, cells0, flags, hasKey, custom_prompts, kwargs, saved,
                   llmVars>>

Summary ==
    /\ pc = "summary"
    /\ IF flags.to_summary
       THEN \E fails \in BOOLEAN :
                InTry("summary", add_summary(cells, hasKey, fails))
       ELSE Skip("summary")
    /\ UNCHANGED <<loaded, cells0, flags, hasKey, custom_prompts, kwargs, saved,
                   llmVars>>

\* try: self.save_notebook(output_path) except Exception: print a warning
Save ==
    /\ pc = "save"
    /\ \E writes \in BOOLEAN :
           LET r == save_notebook(writes)
           IN  /\ saved' = IF r.written THEN "written" ELSE "failed"
               /\ outcome' = "returned"
    /\ pc' = After("save")
    /\ UNCHANGED <<loaded, cells, cells0, pre, flags, hasKey, custom_prompts,
                   kwargs, passes, calls, llmVars>>

----------------------------------------------------------------------------
\* The notebooks loaded. The cell at position i is a code cell holding a
\* statement of its own, a code cell holding only whitespace, a code cell
\* black cannot parse, a markdown cell or a raw cell.

Letters == <<"a", "b", "c", "d", "e", "f", "g", "h">>

CellShapes == {"code", "blank", "broken", "markdown", "raw"}

InputCell(i, shape) ==
    CASE shape = "code"     -> Cell("code", <<Letters[i], " ">>, "input")
      [] shape = "blank"    -> Cell("code", <<" ">>, "input")
      [] shape = "broken"   -> Cell("code", <<Letters[i], "(">>, "input")
      [] shape = "markdown" -> Cell("markdown", <<"t">>, "input")
      [] shape = "raw"      -> Cell("raw", <<"r">>, "input")

Notebooks(longest) ==
    UNION {{[i \in 1..n |-> InputCell(i, f[i])] : f \in [1..n -> CellShapes]} :
           n \in 0..longest}

NoCall == [raised |-> FALSE, value |-> <<>>, called |-> FALSE]

Init ==
    /\ loaded \in BOOLEAN
    /\ cells \in IF loaded THEN Notebooks(MaxRunCells) ELSE {<<>>}
    /\ cells0 = cells
    /\ pre = cells
    /\ flags \in [FlagNames -> BOOLEAN]
    /\ hasKey \in BOOLEAN
    /\ custom_prompts = NoPrompts
    /\ kwargs = {}
    /\ pc = "start"
    /\ outcome = "running"
    /\ saved = "none"
    /\ passes = <<>>
    /\ calls = <<>>
    /\ fpc = "off"
    /\ code = <<>>
    /\ response = Raised
    /\ result = NoCall

Next ==
    \/ Start
    \/ Intro
    \/ Format
    \/ Markdown
    \/ Optimize
    \/ Comment
    \/ Summary
    \/ Save

Spec == Init /\ [][Next]_vars

----------------------------------------------------------------------------
\* The passes called on their own, each on a loaded notebook: one call of one
\* public method of NotebookProcessor.

\* What the method does to the processor and how the call ends.
Direct(name, r) ==
    /\ cells' = r.cells
    /\ calls' = r.calls
    /\ pre' = cells
    /\ passes' = <<name>>
    /\ pc' = "done"
    /\ outcome' = IF r.raised THEN "raised" ELSE "returned"
    /\ UNCHANGED <<loaded, cells0, flags, hasKey, custom_prompts, kwargs, saved,
                   llmVars>>

CallAddIntro ==
    /\ pc = "method"
    /\ \E fails \in BOOLEAN : Direct("intro", add_intro(cells, hasKey, fails))

CallFormat ==
    /\ pc = "method"
    /\ Direct("format", format_code_cells(cells))

CallMarkdown ==
    /\ pc = "method"
    /\ \E F \in SUBSET get_code_cells(cells) :
           Direct("markdown", add_markdown_explanations(cells, hasKey, F))

CallOptimizeCells ==
    /\ pc = "method"
    /\ \E F \in SUBSET get_code_cells(cells) :
           Direct("optimize", optimize_code_cells(cells, hasKey, F))

CallComment ==
    /\ pc = "method"
    /\ \E F \in SUBSET get_code_cells(cells) :
           Direct("comment", add_comments_to_code_cells(cells, hasKey, F))

CallAddSummary ==
    /\ pc = "method"
    /\ \E fails \in BOOLEAN :
           Direct("summary", add_summary(cells, hasKey, fails))

InitPass ==
    /\ loaded = TRUE
    /\ cells \in Notebooks(MaxCells)
    /\ cells0 = cells
    /\ pre = cells
    /\ flags = [n \in FlagNames |-> FALSE]
    /\ hasKey \in BOOLEAN
    /\ custom_prompts = NoPrompts
    /\ kwargs = {}
    /\ pc = "method"
    /\ outcome = "running"
    /\ saved = "none"
    /\ passes = <<>>
    /\ calls = <<>>
    /\ fpc = "off"
    /\ code = <<>>
    /\ response = Raised
    /\ result = NoCall

NextPass ==
    \/ CallAddIntro
    \/ CallFormat
    \/ CallMarkdown
    \/ CallOptimizeCells
    \/ CallComment
    \/ CallAddSummary

SpecPass == InitPass /\ [][NextPass]_vars

----------------------------------------------------------------------------
\* A caller with prompts of its own: the "Process Notebook" handler of app.py,
\* which makes an LLMProcessor from its prompts, then a NotebookProcessor, loads
\* the uploaded notebook and runs explainify_notebook; and a script that makes
\* the NotebookProcessor the way main.py does, without keyword arguments.

\* The keys of st.session_state.custom_prompts.
AppKeys ==
    {"notebook_intro", "code_optimization", "code_comments",
     "markdown_explanation", "notebook_summary"}

\* The parameters NotebookProcessor.__init__ declares after self.
ProcessorInitParams == {"notebook_path"}

\* The session's prompts after the user has edited the templates of keys K.
PromptsOverriding(K) ==
    [k \in AppKeys |-> IF k \in K THEN CustomPrompt(k) ELSE DefaultPrompts(k)]

OverrideSets == {{}} \cup {{k} : k \in AppKeys} \cup {AppKeys}

\* llm = LLMProcessor(prompts=st.session_state.custom_prompts)
NewLLMProcessor ==
    /\ pc = "new llm"
    /\ pc' = IF LLMProcessorRaises(hasKey) THEN "done" ELSE "new processor"
    /\ outcome' = IF LLMProcessorRaises(hasKey) THEN "raised" ELSE outcome
    /\ UNCHANGED <<loaded, cells, cells0, pre, flags, hasKey, custom_prompts,
                   kwargs, saved, passes, calls, llmVars>>

\* processor = NotebookProcessor(**kwargs): Python raises TypeError on a
\* keyword argument the constructor does not declare.
NewNotebookProcessor ==
    /\ pc = "new processor"
    /\ pc' = IF kwargs \subseteq ProcessorInitParams THEN "load" ELSE "done"
    /\ outcome' = IF kwargs \subseteq ProcessorInitParams THEN outcome
                  ELSE "raised"
    /\ UNCHANGED <<loaded, cells, cells0, pre, flags, hasKey, custom_prompts,
                   kwargs, saved, passes, calls, llmVars>>

\* processor.load_notebook(input_path): reads = the file is read and parsed.
LoadNotebook ==
    /\ pc = "load"
    /\ \E reads \in BOOLEAN :
           /\ loaded' = reads
           /\ pc' = IF reads THEN "start" ELSE "done"
           /\ outcome' = IF reads THEN outcome ELSE "raised"
    /\ UNCHANGED <<cells, cells0, pre, flags, hasKey, custom_prompts, kwargs,
                   saved, passes, calls, llmVars>>

\* cells holds the cells of the uploaded file from the start.
InitApp ==
    /\ loaded = FALSE
    /\ cells \in Notebooks(MaxAppCells)
    /\ cells0 = cells
    /\ pre = cells
    /\ flags \in [FlagNames -> BOOLEAN]
    /\ hasKey \in BOOLEAN
    /\ custom_prompts \in {PromptsOverriding(K) : K \in OverrideSets}
    /\ kwargs \in {{}, {"llm_processor"}}
    /\ pc = "new llm"
    /\ outcome = "running"
    /\ saved = "none"
    /\ passes = <<>>
    /\ calls = <<>>
    /\ fpc = "off"
    /\ code = <<>>
    /\ response = Raised
    /\ result = NoCall

NextApp ==
    \/ NewLLMProcessor
    \/ NewNotebookProcessor
    \/ LoadNotebook
    \/ Start
    \/ Intro
    \/ Format
    \/ Markdown
    \/ Optimize
    \/ Comment
    \/ Summary
    \/ Save

SpecApp == InitApp /\ [][NextApp]_vars

----------------------------------------------------------------------------
\* The functions of LLMProcessor called on their own, on codes and responses
\* put together from pieces.

RECURSIVE Texts(_, _)
Texts(pieces, n) ==
    IF n = 0 THEN {<<>>}
    ELSE LET shorter == Texts(pieces, n - 1)
         IN  shorter \cup {t \o q : t \in shorter, q \in pieces}

CodePieces ==
    {<<"d", "e", "f", " ">>,
     <<"d", "e", "f", " ", "f">>,
     <<"c", "l", "a", "s", "s", " ", "C">>,
     <<"i", "m", "p", "o", "r", "t", " ", "b">>,
     <<"f", "r", "o", "m", " ", "a", " ">>,
     <<"#", " ", "c">>,
     <<"x", "=", "1">>,
     <<"\n">>}

BodyPieces ==
    {<<"H", "i", " ">>,
     <<"H", "i", " ", "#", " ">>,
     <<"d", "e", "f", " ", "f">>,
     <<"#", " ", "c">>,
     <<"\n">>,
     <<"i", "m", "p", "o", "r", "t", " ", "b">>}

ResponsePrefixes == {<<>>, <<" ">>, Fence \o <<"\n">>, FencePython \o <<"\n">>}
ResponseSuffixes == {<<>>, <<"CR", "\n">>, <<"\n">> \o Fence}

Codes == Texts(CodePieces, MaxCodePieces)

Responses ==
    {a \o b \o z : a \in ResponsePrefixes, b \in Texts(BodyPieces, MaxBodyPieces),
                   z \in ResponseSuffixes}

InitLLM ==
    /\ loaded = FALSE
    /\ cells = <<>>
    /\ cells0 = <<>>
    /\ pre = <<>>
    /\ flags = [n \in FlagNames |-> FALSE]
    /\ hasKey = TRUE
    /\ custom_prompts = NoPrompts
    /\ kwargs = {}
    /\ pc = "off"
    /\ outcome = "running"
    /\ saved = "none"
    /\ passes = <<>>
    /\ calls = <<>>
    /\ fpc \in {"optimize_code", "add_comments_to_code"}
    /\ code \in Codes
    /\ response \in {Raised} \cup {Answer(r) : r \in Responses}
    /\ result = NoCall

OptimizeCode ==
    /\ fpc = "optimize_code"
    /\ result' = optimize_code(code, response)
    /\ fpc' = "optimize_code returned"
    /\ UNCHANGED <<code, response, pipelineVars>>

AddComments ==
    /\ fpc = "add_comments_to_code"
    /\ result' = add_comments_to_code(code, response)
    /\ fpc' = "add_comments_to_code returned"
    /\ UNCHANGED <<code, response, pipelineVars>>

NextLLM ==
    \/ OptimizeCode
    \/ AddComments

SpecLLM == InitLLM /\ [][NextLLM]_vars

----------------------------------------------------------------------------
\* Properties.

Last(q) == q[Len(q)]

Min(S) == CHOOSE x \in S : \A y \in S : x <= y

Kinds(cs) == [i \in 1..Len(cs) |-> cs[i].kind]

IsBlank(src) == Strip(src) = <<>>

\* The code cells of cs before position i, in order.
CodeBefore(cs, i) == SelectSeq(SubSeq(cs, 1, i - 1), LAMBDA c : c.kind = "code")

\* How many of the first n calls of the log ended well.
OkUpTo(log, n) == Cardinality({m \in 1..n : log[m].ok})

\* The calls of the log made for the cell at position i.
CallsFor(log, i) == {n \in 1..Len(log) : log[n].pos = i}

\* A single pass, called on its own, has run to its end.
PassReturned(name) ==
    pc = "done" /\ passes = <<name>> /\ outcome = "returned"

\* explainify_notebook is over.
RunOver == loaded /\ pc = "done"

GenerationFlags ==
    {"to_intro", "to_markdown", "to_optimize", "to_comment", "to_summary"}

\* The flag of a pass.
FlagOf(name) ==
    CASE name = "intro"    -> "to_intro"
      [] name = "format"   -> "to_format"
      [] name = "markdown" -> "to_markdown"
      [] name = "optimize" -> "to_optimize"
      [] name = "comment"  -> "to_comment"
      [] name = "summary"  -> "to_summary"

\* The pass order of the specification's section 4.3.
StatedOrder ==
    <<"intro", "markdown", "optimize", "comment", "summary", "format">>

\* C1: explainify_notebook runs the enabled passes in the order introduction,
\* markdown explanations, optimization, comments, summary, formatting, so that
\* formatting is the last pass before the save (here: in the runs that have a
\* credential, so that every enabled pass does its work).
C1_PassesInStatedOrder ==
    (RunOver /\ hasKey) =>
        passes = SelectSeq(StatedOrder, LAMBDA name : flags[FlagOf(name)])

\* C2 as stated: after add_markdown_explanations the notebook is longer by the
\* number of its code cells and every code cell comes right after a markdown
\* cell the pass inserted, whether its generation call succeeded or failed.
C2_EveryCodeCellExplained ==
    PassReturned("markdown") =>
        /\ Len(cells) = Len(pre) + Cardinality(get_code_cells(pre))
        /\ \A j \in get_code_cells(cells) :
               j > 1 /\ cells[j - 1].origin = "markdown"

\* C2 as amended: add_markdown_explanations makes one generation call per code
\* cell, in order; the notebook grows by the number of calls that succeeded;
\* a code cell whose call succeeded comes right after an inserted markdown cell
\* holding the stripped response, a code cell whose call failed gets no
\* inserted cell; every original cell is kept, unchanged and in order. Without
\* a credential the pass raises before any call and leaves the cells alone.
C2_SucceededCallsExplained ==
    /\ PassReturned("markdown") =>
        /\ Len(calls) = Cardinality(get_code_cells(pre))
        /\ Len(cells) = Len(pre) + OkUpTo(calls, Len(calls))
        /\ SelectSeq(cells, LAMBDA c : c.origin # "markdown") = pre
        /\ \A n \in 1..Len(calls) :
               LET i == calls[n].pos
                   j == i + OkUpTo(calls, n)
               IN  /\ pre[i].kind = "code"
                   /\ Len(CodeBefore(pre, i)) = n - 1
                   /\ calls[n].code = pre[i].source
                   /\ cells[j] = pre[i]
                   /\ IF calls[n].ok
                      THEN cells[j - 1] =
                               Cell("markdown", Strip(calls[n].ret), "markdown")
                      ELSE j = 1 \/ cells[j - 1].origin # "markdown"
    /\ (pc = "done" /\ passes = <<"markdown">> /\ outcome = "raised") =>
        ~hasKey /\ cells = pre /\ calls = <<>>

\* add_markdown_explanations ran over three code cells and only the call for
\* the second one failed.
C2_Witness ==
    /\ PassReturned("markdown")
    /\ Len(calls) = 3
    /\ calls[1].ok /\ ~calls[2].ok /\ calls[3].ok

\* C3 as stated: after add_comments_to_code_cells every code cell whose
\* generation call raised keeps its content and every other code cell holds
\* the cleaned response of its call.
C3_EveryOtherCellCommented ==
    PassReturned("comment") =>
        \A i \in get_code_cells(pre) :
            IF \E n \in CallsFor(calls, i) : ~calls[n].ok
            THEN cells[i].source = pre[i].source
            ELSE \E n \in CallsFor(calls, i) :
                     /\ calls[n].ok
                     /\ cells[i].source = clean_response(calls[n].ret)

\* C3 as amended: add_comments_to_code_cells visits every code cell up to the
\* last; a code cell that is empty or whitespace only keeps its content and no
\* call is made for it; every other code cell gets exactly one call, keeps
\* its content if the call raised and holds the cleaned response if not; no
\* other cell changes and none is inserted or removed. Without a credential
\* the pass raises before any call and leaves the cells alone.
C3_FailureIsolation ==
    /\ PassReturned("comment") =>
        /\ Len(cells) = Len(pre)
        /\ \A n \in 1..Len(calls) : calls[n].pos \in get_code_cells(pre)
        /\ \A i \in 1..Len(pre) :
               IF pre[i].kind # "code" \/ IsBlank(pre[i].source)
               THEN cells[i] = pre[i] /\ CallsFor(calls, i) = {}
               ELSE \E n \in CallsFor(calls, i) :
                        /\ CallsFor(calls, i) = {n}
                        /\ calls[n].code = pre[i].source
                        /\ cells[i] =
                               [pre[i] EXCEPT !.source =
                                    IF calls[n].ok
                                    THEN clean_response(calls[n].ret)
                                    ELSE pre[i].source]
    /\ (pc = "done" /\ passes = <<"comment">> /\ outcome = "raised") =>
        ~hasKey /\ cells = pre /\ calls = <<>>

\* add_comments_to_code_cells ran over three code cells with content and only
\* the call for the second one failed: the first and third are rewritten.
C3_Witness ==
    /\ PassReturned("comment")
    /\ Len(calls) = 3
    /\ calls[1].ok /\ ~calls[2].ok /\ calls[3].ok
    /\ cells[calls[1].pos].source # pre[calls[1].pos].source
    /\ cells[calls[2].pos].source = pre[calls[2].pos].source
    /\ cells[calls[3].pos].source # pre[calls[3].pos].source

\* C4: once a notebook is loaded, nothing a pass, a generation call or black
\* raises leaves explainify_notebook: unless the save failed, the run is never
\* ended by an exception, and when it is over it has returned.
C4_NoPassErrorEscapes ==
    (loaded /\ saved # "failed") =>
        /\ outcome # "raised"
        /\ pc = "done" => outcome = "returned"

\* A run that returned although black raised on a cell, a generation call
\* raised and the output was written.
C4_Witness ==
    /\ RunOver /\ outcome = "returned" /\ saved = "written"
    /\ \E n \in 1..Len(calls) : calls[n].op = "format" /\ ~calls[n].ok
    /\ \E n \in 1..Len(calls) : calls[n].op = "comment" /\ ~calls[n].ok

\* C5: when the final save fails, explainify_notebook does not return
\* normally: the failure reaches the caller.
C5_SaveFailurePropagates ==
    (RunOver /\ saved = "failed") => outcome = "raised"

\* C6: without a credential and with a generation pass enabled, the run ends
\* in an error that reaches the caller, no cell was changed or inserted and
\* nothing was saved.
C6_MissingCredentialIsFatal ==
    (RunOver /\ ~hasKey /\ \E f \in GenerationFlags : flags[f]) =>
        /\ outcome = "raised"
        /\ cells = cells0
        /\ saved # "written"

\* C7: in the optimize pass and the comment pass, the context handed to the
\* generation call for a code cell is the list of the contents of the code
\* cells before it, in order (as they were before or after the pass), and
\* nothing else.
C7_ContextIsEarlierCodeCells ==
    (PassReturned("comment") \/ PassReturned("optimize")) =>
        \A n \in 1..Len(calls) :
            LET i == calls[n].pos
                before == get_code_cells(SubSeq(pre, 1, i - 1))
            IN  /\ Len(calls[n].context) = Cardinality(before)
                /\ \A k \in 1..Len(calls[n].context) :
                       \E b \in before :
                           /\ Len(CodeBefore(pre, b)) = k - 1
                           /\ calls[n].context[k] \in
                                  {pre[b].source, cells[b].source}

\* C8: the passes that insert nothing (format, optimize, comment) leave the
\* number of cells and the kind at every position as they were, each on its
\* own and any subset of them in a run, whatever fails.
C8_KindsPreserved ==
    /\ (passes # <<>> /\ Last(passes) \in {"format", "optimize", "comment"}) =>
        Kinds(cells) = Kinds(pre)
    /\ (\A name \in {"intro", "markdown", "summary"} : ~flags[FlagOf(name)]) =>
        Kinds(cells) = Kinds(cells0)

\* A run of format, optimize and comment only, over a notebook with a cell
\* that is not code, in which black raised on a cell, a comment call raised on
\* another and a third call rewrote its cell.
C8_Witness ==
    /\ RunOver /\ outcome = "returned"
    /\ passes = <<"format", "optimize", "comment">>
    /\ \E i \in 1..Len(cells) : cells[i].kind # "code"
    /\ \E i \in 1..Len(cells) : cells[i].source # cells0[i].source
    /\ \E n \in 1..Len(calls) : ~calls[n].ok

\* Only to_format is set.
OnlyFormat == \A f \in FlagNames : flags[f] <=> f = "to_format"

\* C9: a run with only to_format set returns a notebook with the same cells
\* in which every code cell holds what black made of its original content, or
\* its original content if black raised on it; black is called once for every
\* code cell, also after one it raised on; no other cell changes.
C9_OnlyFormat ==
    (RunOver /\ OnlyFormat) =>
        /\ outcome = "returned"
        /\ passes = <<"format">>
        /\ Len(cells) = Len(cells0)
        /\ Len(calls) = Cardinality(get_code_cells(cells0))
        /\ \A i \in 1..Len(cells0) :
               IF cells0[i].kind # "code"
               THEN cells[i] = cells0[i]
               ELSE \E n \in CallsFor(calls, i) :
                        /\ calls[n].op = "format"
                        /\ calls[n].code = cells0[i].source
                        /\ cells[i] =
                               [cells0[i] EXCEPT !.source =
                                    IF calls[n].ok THEN calls[n].ret
                                    ELSE cells0[i].source]

\* A format-only run in which black raised on the first code cell and
\* reformatted the second.
C9_Witness ==
    /\ RunOver /\ OnlyFormat
    /\ Len(calls) = 2
    /\ ~calls[1].ok /\ calls[2].ok
    /\ cells[calls[1].pos].source = cells0[calls[1].pos].source
    /\ cells[calls[2].pos].source # cells0[calls[2].pos].source

\* The places of the response at which one of the markers starts.
MarkerPlaces(o, markers) ==
    {i \in 0..(Len(o) - 1) : \E m \in markers : OccursAt(o, m, i)}

FiveMarkers == {MarkerDef, MarkerClass, MarkerImport, MarkerFrom, MarkerHash}

\* The response cut at the first place at which one of the five markers
\* starts (at its end when none does), then stripped.
CutAtFirstMarker(o) ==
    LET places == MarkerPlaces(o, FiveMarkers)
    IN  Strip(SliceFrom(o, IF places = {} THEN Len(o) ELSE Min(places)))

\* optimize_code got an answer from the service.
OptimizeAnswered ==
    fpc = "optimize_code returned" /\ result.called /\ ~result.raised

\* C10 as stated: optimize_code cuts the cleaned response at the first marker
\* exactly when the code it was given contains one of the five markers (seen
\* on the responses that hold a marker), and returns the cleaned response
\* whole exactly when the code contains none.
C10_TruncatesOnAnyMarker ==
    OptimizeAnswered =>
        LET o == clean_response(response.raw)
        IN  IF \E m \in FiveMarkers : Contains(code, m)
            THEN MarkerPlaces(o, FiveMarkers) # {} =>
                     result.value = CutAtFirstMarker(o)
            ELSE result.value = o

\* C10 as amended: optimize_code cuts the cleaned response at the first of
\* the five markers exactly when the stripped code contains "def ", "class "
\* or "import "; when it contains none of these three it returns the cleaned
\* response whole, also when the code contains "from " or "#".
C10_TruncatesOnDefClassImport ==
    OptimizeAnswered =>
        result.value =
            IF \E m \in {MarkerDef, MarkerClass, MarkerImport} :
                   Contains(Strip(code), m)
            THEN CutAtFirstMarker(clean_response(response.raw))
            ELSE clean_response(response.raw)

\* optimize_code was given code that holds a comment and no def, class or
\* import, and returned the prose before the marker with the response.
C10_Witness ==
    /\ OptimizeAnswered
    /\ Contains(code, MarkerHash)
    /\ ~Contains(code, MarkerDef) /\ ~Contains(code, MarkerImport)
    /\ MarkerPlaces(result.value, {MarkerHash}) # {}
    /\ 0 \notin MarkerPlaces(result.value, {MarkerHash, MarkerDef})
    /\ result.value = clean_response(response.raw)

\* C11: when optimize_code truncates (the stripped code holds "def ", "class "
\* or "import ") and the cleaned response holds at least one of the five
\* markers, the result is the cleaned response from the earliest place at which
\* any of the five markers starts to its end; when neither the code nor the
\* cleaned response holds a marker, the result is the cleaned response whole,
\* which is the trimmed response when the response has no fence.
C11_SlicedFromEarliestMarker ==
    OptimizeAnswered =>
        LET o == clean_response(response.raw)
            places == MarkerPlaces(o, FiveMarkers)
        IN  /\ (NeedsTruncation(Strip(code)) /\ places # {}) =>
                   result.value = SliceFrom(o, Min(places))
            /\ (places = {} /\ \A m \in FiveMarkers : ~Contains(code, m)) =>
                   /\ result.value = o
                   /\ ~Contains(response.raw, <<Backquote>>) =>
                          result.value = Strip(response.raw)

\* optimize_code truncated a response that holds prose, then "#", then "def ":
\* the result starts at the "#", the earlier of the two markers.
C11_Witness ==
    /\ OptimizeAnswered
    /\ NeedsTruncation(Strip(code))
    /\ LET o == clean_response(response.raw)
       IN  /\ Find(o, MarkerHash) > 0
           /\ Find(o, MarkerDef) > Find(o, MarkerHash)
           /\ result.value = SliceFrom(o, Find(o, MarkerHash))
           /\ result.value # o

\* The key of the template a generation operation makes its prompt from.
TemplateKey(op) ==
    CASE op = "intro"    -> "notebook_intro"
      [] op = "markdown" -> "markdown_explanation"
      [] op = "optimize" -> "code_optimization"
      [] op = "comment"  -> "code_comments"
      [] op = "summary"  -> "notebook_summary"

\* C12: every generation call of a run is made from the template the caller
\* supplied for its operation before the run, and from the built-in default
\* where the caller supplied none: the templates of the caller's LLMProcessor,
\* the same for the whole run.
C12_OverridesAreUsed ==
    \A n \in 1..Len(calls) :
        calls[n].op # "format" =>
            calls[n].template =
                LLMProcessorPrompts(custom_prompts)[TemplateKey(calls[n].op)]

\* C13: add_intro and add_summary, once they have their LLMProcessor, make
\* exactly one generation call, on the (cell_type, source) listing of the cells
\* as they were at entry; when the call succeeds exactly one markdown cell
\* holding the stripped response is inserted, in front of all cells by
\* add_intro and after all cells by add_summary, and every other cell is kept
\* as it was and in order; when the call fails the cells are exactly as they
\* were. A pass that cannot make its LLMProcessor raises before any call and
\* leaves the cells as they were.
C13_IntroSummarySingleShot ==
    /\ \A name \in {"intro", "summary"} :
           PassReturned(name) =>
               /\ Len(calls) = 1
               /\ calls[1].op = name
               /\ calls[1].listing = notebook_cells(pre)
               /\ LET new == Cell("markdown", Strip(calls[1].ret), name)
                  IN  cells = IF ~calls[1].ok THEN pre
                              ELSE IF name = "intro" THEN <<new>> \o pre
                              ELSE pre \o <<new>>
    /\ \A name \in {"intro", "summary"} :
           (pc = "done" /\ passes = <<name>> /\ outcome = "raised") =>
               ~hasKey /\ cells = pre /\ calls = <<>>

\* add_intro succeeded on a notebook of three cells, not all of them code: the
\* new cell is the first of four.
C13_Witness ==
    /\ PassReturned("intro")
    /\ Len(pre) = 3
    /\ \E i \in 1..3 : pre[i].kind # "code"
    /\ \E i \in 1..3 : pre[i].kind = "code"
    /\ calls[1].ok
    /\ Len(cells) = 4
    /\ cells[1].origin = "intro"

\* C14: after optimize_code_cells every code cell with content holds the
\* post-processed response of a generation call that succeeded for it, or has
\* its original content because the generation call made for it failed.
C14_OptimizedUnlessCallFailed ==
    PassReturned("optimize") =>
        \A i \in get_code_cells(pre) :
            ~IsBlank(pre[i].source) =>
                \E n \in CallsFor(calls, i) :
                    /\ calls[n].op = "optimize"
                    /\ cells[i].source =
                           IF calls[n].ok
                           THEN optimize_code(pre[i].source,
                                              Answer(calls[n].ret)).value
                           ELSE pre[i].source

\* The cells of cs that were loaded, in the order they have in cs.
Loaded(cs) == SelectSeq(cs, LAMBDA c : c.origin = "input")

\* C15: at every point of an explainify_notebook run, whatever the flags and
\* whatever fails, the loaded cells are all in the notebook, in their original
\* order and of their original kind (a code cell with content still holds the
\* statement it was loaded with), every cell that was not loaded is a markdown
\* cell, and every loaded cell that is not code is exactly as it was loaded.
C15_OriginalsKeptInOrder ==
    loaded =>
        /\ Len(Loaded(cells)) = Len(cells0)
        /\ \A i \in 1..Len(cells0) :
               /\ Loaded(cells)[i].kind = cells0[i].kind
               /\ cells0[i].kind # "code" => Loaded(cells)[i] = cells0[i]
               /\ (cells0[i].kind = "code" /\ ~IsBlank(cells0[i].source)) =>
                      Contains(Loaded(cells)[i].source, <<Letters[i]>>)
        /\ \A j \in 1..Len(cells) :
               cells[j].origin # "input" => cells[j].kind = "markdown"

\* A run over a raw cell and a code cell, in either order, that returned with
\* an introduction, an explanation and a summary inserted and the code cell
\* rewritten.
C15_Witness ==
    /\ RunOver /\ outcome = "returned"
    /\ Len(cells0) = 2 /\ Len(cells) = 5
    /\ \E i \in 1..2 : cells0[i].kind = "raw"
    /\ \E i \in 1..2 :
           /\ cells0[i].kind = "code"
           /\ Loaded(cells)[i].source # cells0[i].source
    /\ {cells[j].origin : j \in 1..5} = {"input", "intro", "markdown", "summary"}

----------------------------------------------------------------------------
\* The markdown pass as the specification's design notes give it: walk a
\* snapshot of the original length with an insertion counter, insert each
\* generated markdown cell at original_index + insertions_so_far, right before
\* its code cell, and count only the insertions made.

AdjustedPosition(original_index, insertions_so_far) ==
    original_index + insertions_so_far

RECURSIVE OffsetWalk(_, _, _, _, _)
OffsetWalk(snapshot, i, F, cur, insertions_so_far) ==
    IF i > Len(snapshot) THEN cur
    ELSE IF snapshot[i].kind = "code" /\ i \notin F
    THEN OffsetWalk(snapshot, i + 1, F,
                    InsertAt(cur, AdjustedPosition(i, insertions_so_far),
                             ExplanationOf(snapshot[i].source)),
                    insertions_so_far + 1)
    ELSE OffsetWalk(snapshot, i + 1, F, cur, insertions_so_far)

OffsetCounterPass(cs, F) == OffsetWalk(cs, 1, F, cs, 0)

\* The places of the cells for which a call of the log failed.
FailedAt(log) == {log[n].pos : n \in {m \in 1..Len(log) : ~log[m].ok}}

\* C16: for every notebook and every pattern of failing generation calls, the
\* cells add_markdown_explanations leaves (the rebuilt new_cells) are the cells
\* the offset-counter walk leaves, which inserts each generated markdown cell
\* at original_index + insertions_so_far and counts only actual insertions.
C16_RebuildEqualsOffsetCounter ==
    PassReturned("markdown") => cells = OffsetCounterPass(pre, FailedAt(calls))

\* add_markdown_explanations ran over four cells, one of them not code, and
\* inserted two explanations with a failed call between them.
C16_Witness ==
    /\ PassReturned("markdown")
    /\ Len(pre) = 4 /\ Len(cells) = 6
    /\ \E i \in 1..4 : pre[i].kind # "code"
    /\ Len(calls) = 3
    /\ calls[1].ok /\ ~calls[2].ok /\ calls[3].ok

\* The calls the most recent pass made, in the order it made them.
CallsOfLastPass == SelectSeq(calls, LAMBDA c : c.op = Last(passes))

\* What the most recent pass walked: its calls were made for code cells that
\* were in the notebook when it began (never for a cell it inserted), each
\* with that cell's content, in the order of the cells and at most one per
\* cell; black and, given a credential, the explanation call were made for
\* every code cell; add_intro and add_summary made at most one call.
VisitedOnce ==
    passes # <<>> =>
        LET name == Last(passes)
            log == CallsOfLastPass
        IN  /\ \A n \in 1..(Len(log) - 1) : log[n].pos < log[n + 1].pos
            /\ name \notin {"intro", "summary"} =>
                   \A n \in 1..Len(log) :
                       /\ log[n].pos \in get_code_cells(pre)
                       /\ log[n].code = pre[log[n].pos].source
                       /\ pre[log[n].pos].origin # name
            /\ (name = "format" \/ (name = "markdown" /\ hasKey)) =>
                   {log[n].pos : n \in 1..Len(log)} = get_code_cells(pre)

\* The place of statement p in explainify_notebook.
StatementIndex(p) == CHOOSE i \in 1..Len(Statements) : Statements[i] = p

\* C17: every explainify_notebook run ends, given that every external call
\* returns or raises: every step of a run moves to a later statement of
\* explainify_notebook, of which there are finitely many, and a run that is
\* not over is at a statement; and every pass of it walks the code cells that
\* were in the notebook when the pass began once each, in order, with at most
\* one call per cell and none for a cell the pass inserted.
C17_RunsEndVisitingOnce ==
    /\ [](VisitedOnce)
    /\ [](pc \in {Statements[i] : i \in 1..Len(Statements)})
    /\ [](pc = "done" <=> outcome # "running")
    /\ [][StatementIndex(pc') > StatementIndex(pc)]_vars

\* A run of all six passes over two code cells that returned: the markdown
\* pass made two calls after the introduction was inserted, one of which raised,
\* and the comment pass made two calls on the notebook with the explanation in.
C17_Witness ==
    /\ RunOver /\ outcome = "returned"
    /\ Len(passes) = 6
    /\ Cardinality(get_code_cells(cells0)) = 2
    /\ Len(SelectSeq(calls, LAMBDA c : c.op = "markdown")) = 2
    /\ Len(SelectSeq(calls, LAMBDA c : c.op = "markdown" /\ ~c.ok)) = 1
    /\ Len(SelectSeq(calls, LAMBDA c : c.op = "comment")) = 2
    /\ Len(cells) > Len(cells0)

\* The contents of the cells of a sequence.
Sources(cs) == [i \in 1..Len(cs) |-> cs[i].source]

\* C18: in add_markdown_explanations the context handed to the generation
\* call for the n-th code cell is the list of the contents, as they were when
\* the pass began, of the code cells before it, in order, also of those whose
\* own call failed; so it holds neither the cell itself, nor a later cell, nor
\* the content of a markdown cell.
C18_MarkdownContextIsEarlierCode ==
    PassReturned("markdown") =>
        \A n \in 1..Len(calls) :
            /\ calls[n].ctxGiven
            /\ calls[n].context = Sources(CodeBefore(pre, calls[n].pos))
            /\ Len(calls[n].context) = n - 1

\* add_markdown_explanations ran over a markdown cell and three code cells;
\* the call for the second code cell failed and the context of the call for
\* the third holds the first two.
C18_Witness ==
    /\ PassReturned("markdown")
    /\ Len(pre) = 4
    /\ \E i \in 1..3 : pre[i].kind = "markdown"
    /\ Len(calls) = 3
    /\ ~calls[2].ok /\ calls[3].ok
    /\ calls[3].context = <<calls[1].code, calls[2].code>>

\* t is what is left of o from some place on.
IsSuffixOf(t, o) == \E k \in 0..Len(o) : t = SliceFrom(o, k)

\* C19: the result of optimize_code is a suffix of the cleaned response and is
\* not empty unless the cleaned response is; when the cleaned response holds
\* none of the five markers it is returned whole, also when the code holds a
\* marker.
C19_ResultIsNonEmptySuffix ==
    OptimizeAnswered =>
        LET o == clean_response(response.raw)
        IN  /\ IsSuffixOf(result.value, o)
            /\ o # <<>> => result.value # <<>>
            /\ MarkerPlaces(o, FiveMarkers) = {} => result.value = o

====
